---- MODULE Spec2Model ----
(***************************************************************************)
(* Model of src/app.py: the catalogue tables read at start-up, the        *)
(* recommendation resolver get_recommendation, the prompt built by        *)
(* get_deal_insights, and one run of the Streamlit script per user        *)
(* interaction (secrets, upload feed, the two button handlers).           *)
(*                                                                         *)
(* Text is modelled as a sequence of one-character strings, so that       *)
(* str.startswith, str[0], str.upper and int() are computed, not assumed. *)
(* A cell of a table is a value: a Python str, the float NaN pandas puts  *)
(* in an empty cell, or None (what row.get returns for an absent column). *)
(*                                                                         *)
(* Catalogue inputs: names are non-empty text, a Minimum Order Quantity   *)
(* cell is either a decimal integer literal or non-numeric text.          *)
(***************************************************************************)
EXTENDS Integers, Sequences, FiniteSets, TLC

VARIABLES base_df, industry_dfs, secrets, uploaded_df, clicked, pc,
          call, rec, requests, display, exception

vars == <<base_df, industry_dfs, secrets, uploaded_df, clicked, pc,
          call, rec, requests, display, exception>>

(* ---------------------------------------------------------------- bounds *)
MaxRows == 2
MaxUploadRows == 1

(* ------------------------------------------------------------- Python values *)
Str(s) == [kind |-> "str", chars |-> s]
NaN == [kind |-> "nan", chars |-> <<>>]
NoneVal == [kind |-> "none", chars |-> <<>>]

\* Python truthiness of a cell: None and "" are falsy, float('nan') is truthy.
Truthy(v) == v.kind = "nan" \/ (v.kind = "str" /\ v.chars # <<>>)

\* Python `a or b`.
Or(a, b) == IF Truthy(a) THEN a ELSE b

LowerChars == <<"a", "b", "c", "d", "e", "f", "g", "h", "i", "j", "k", "l", "m",
                "n", "o", "p", "q", "r", "s", "t", "u", "v", "w", "x", "y", "z">>
UpperChars == <<"A", "B", "C", "D", "E", "F", "G", "H", "I", "J", "K", "L", "M",
                "N", "O", "P", "Q", "R", "S", "T", "U", "V", "W", "X", "Y", "Z">>

\* str.upper() of one character.
Upper(c) ==
    IF \E i \in DOMAIN LowerChars : LowerChars[i] = c
    THEN UpperChars[CHOOSE i \in DOMAIN LowerChars : LowerChars[i] = c]
    ELSE c

\* s.startswith(p) on text.
StartsWith(s, p) == Len(p) <= Len(s) /\ SubSeq(s, 1, Len(p)) = p

DigitChars == <<"0", "1", "2", "3", "4", "5", "6", "7", "8", "9">>
IsDigit(c) == \E i \in DOMAIN DigitChars : DigitChars[i] = c
DigitVal(c) == (CHOOSE i \in DOMAIN DigitChars : DigitChars[i] = c) - 1

RECURSIVE DecimalValue(_)
DecimalValue(s) ==
    IF s = <<>> THEN 0
    ELSE DecimalValue(SubSeq(s, 1, Len(s) - 1)) * 10 + DigitVal(s[Len(s)])

\* A faulty variant of IntOf: a non-numeric cell is defaulted to 0 instead of raising.
IntOfDefaultZero(cell) ==
    IF cell # <<>> /\ \A i \in DOMAIN cell : IsDigit(cell[i])
    THEN [ok |-> TRUE, val |-> DecimalValue(cell)]
    ELSE [ok |-> TRUE, val |-> 0]

\* int(moq): a column of integer literals is read as int64 and int() returns the
\* number; one non-numeric cell makes the column text and int() parses the text of
\* the selected cell; an empty cell is NaN. Both failures raise ValueError.
IntOf(cell) ==
    IF cell # <<>> /\ \A i \in DOMAIN cell : IsDigit(cell[i])
    THEN [ok |-> TRUE, val |-> DecimalValue(cell)]
    ELSE [ok |-> FALSE, val |-> 0]

(* ------------------------------------------------------------ the catalogue *)
Apparel == <<"A", "p", "p", "a", "r", "e", "l">>
Construction == <<"C", "o", "n", "s", "t", "r", "u", "c", "t", "i", "o", "n">>
Energy == <<"E", "n", "e", "r", "g", "y">>
Hospitality == <<"H", "o", "s", "p", "i", "t", "a", "l", "i", "t", "y">>
Transportation == <<"T", "r", "a", "n", "s", "p", "o", "r", "t", "a", "t", "i", "o", "n">>

\* The keys of industry_dfs.
Industries == {Apparel, Construction, Energy, Hospitality, Transportation}

BaseTag == <<"B", "a", "s", "e">>

\* Product names of the catalogue files, in the row order of Base.csv: "W", "Wa"
\* (which starts with "W") and "w" (which differs from "W" in case only).
NameList == <<<<"W">>, <<"W", "a">>, <<"w">>>>
Names == {NameList[i] : i \in DOMAIN NameList}

NonNumeric == <<"n", "/", "a">>

TableNo(tag) ==
    CASE tag = BaseTag -> 1
      [] tag = Apparel -> 2
      [] tag = Construction -> 3
      [] tag = Energy -> 4
      [] tag = Hospitality -> 5
      [] tag = Transportation -> 6

\* The cells of row i of the table `tag`. Code, payment terms and a numeric MOQ are
\* different in every row of every table, so that a result shows which row each of
\* its fields was taken from.
CodeCell(tag, i) == [col |-> "Code", table |-> tag, row |-> i]
TermsCell(tag, i) == [col |-> "Payment Terms", table |-> tag, row |-> i]
MOQCell(tag, i, numeric) ==
    IF numeric THEN <<DigitChars[TableNo(tag) + 1], DigitChars[i + 1]>> ELSE NonNumeric
NoCell == [col |-> "", table |-> <<>>, row |-> 0]

\* A sheet lists product names and, per row, whether its MOQ cell is numeric.
Shapes(n) == UNION {[1..k -> [name : Names, numeric : BOOLEAN]] : k \in 0..n}

\* Base.csv holds a non-empty selection of the names, each once (Base Name is its
\* key), and per row whether its MOQ cell is numeric.
BaseShapes ==
    {SelectSeq([i \in DOMAIN NameList |-> [name |-> NameList[i], numeric |-> i \in num]],
               LAMBDA r : r.name \in present) :
        present \in (SUBSET Names) \ {{}}, num \in SUBSET (DOMAIN NameList)}

\* Base.csv: columns Base Name, Base Code, Minimum Order Quantity, Payment Terms.
BaseTable(shape) ==
    [i \in DOMAIN shape |->
        [BaseName |-> shape[i].name, BaseCode |-> CodeCell(BaseTag, i),
         MOQ |-> MOQCell(BaseTag, i, shape[i].numeric),
         Terms |-> TermsCell(BaseTag, i)]]

\* <Industry>.csv: first column the name, second the code, then the two named ones.
IndustryTable(tag, shape) ==
    [i \in DOMAIN shape |->
        [col0 |-> shape[i].name, col1 |-> CodeCell(tag, i),
         MOQ |-> MOQCell(tag, i, shape[i].numeric),
         Terms |-> TermsCell(tag, i)]]

\* The five industry sheets list the same product names, each with its own codes,
\* quantities and terms.
IndustryDfs(shape) == [ind \in Industries |-> IndustryTable(ind, shape)]

(* ------------------------------------------------------- get_recommendation *)
Result(outcome, exc, p, ind, rp, rc, moq, terms) ==
    [outcome |-> outcome, exc |-> exc, Product |-> p, Industry |-> ind,
     RecommendedProduct |-> rp, RecommendedCode |-> rc, MOQ |-> moq,
     PaymentTerms |-> terms]

NoRec == Result("none", "", NoneVal, NoneVal, NoneVal, NoCell, 0, NoCell)
\* `return None`
NotFound == Result("None", "", NoneVal, NoneVal, NoneVal, NoCell, 0, NoCell)
Raised(exc) == Result("raise", exc, NoneVal, NoneVal, NoneVal, NoCell, 0, NoCell)

\* A faulty variant of BaseProduct: the base lookup accepts a name that starts with the
\* product instead of an equal name.
BaseProductPrefix(base, product) ==
    SelectSeq(base, LAMBDA r : product.kind = "str" /\ StartsWith(r.BaseName, product.chars))

\* base_df[base_df["Base Name"] == product_name]
BaseProduct(base, product) ==
    SelectSeq(base, LAMBDA r : product.kind = "str" /\ r.BaseName = product.chars)

Reverse(s) == [i \in DOMAIN s |-> s[Len(s) + 1 - i]]

\* Faulty variants of IndustryMatch: equality instead of startswith; every row taken as
\* a match; the matching rows in reverse row order.
IndustryMatchExact(inds, product, industry) ==
    IF industry.kind = "str" /\ industry.chars \in DOMAIN inds
    THEN SelectSeq(inds[industry.chars], LAMBDA r : r.col0 = product.chars)
    ELSE <<>>

IndustryMatchAnyRow(inds, product, industry) ==
    IF industry.kind = "str" /\ industry.chars \in DOMAIN inds
    THEN inds[industry.chars]
    ELSE <<>>

IndustryMatchLast(inds, product, industry) ==
    IF industry.kind = "str" /\ industry.chars \in DOMAIN inds
    THEN Reverse(SelectSeq(inds[industry.chars],
                           LAMBDA r : StartsWith(r.col0, product.chars)))
    ELSE <<>>

\* `if industry in industry_dfs: match = df[df[df.columns[0]].str.startswith(..)]`;
\* an industry that is no key (an unknown label, "", NaN) gives no match. Called
\* only with a product found in the base table, which is a str.
IndustryMatch(inds, product, industry) ==
    IF industry.kind = "str" /\ industry.chars \in DOMAIN inds
    THEN SelectSeq(inds[industry.chars], LAMBDA r : StartsWith(r.col0, product.chars))
    ELSE <<>>

get_recommendation(base, inds, product, industry) ==
    LET base_product == BaseProduct(base, product) IN
    IF base_product = <<>> THEN NotFound
    ELSE
        LET match == IndustryMatch(inds, product, industry)
            reco_product == IF match # <<>> THEN Str(match[1].col0) ELSE product
            reco_code == IF match # <<>> THEN match[1].col1 ELSE base_product[1].BaseCode
            moq == IF match # <<>> THEN match[1].MOQ ELSE base_product[1].MOQ
            terms == IF match # <<>> THEN match[1].Terms ELSE base_product[1].Terms
            n == IntOf(moq)
        IN  IF n.ok
            THEN Result("ok", "", product, industry, reco_product, reco_code, n.val, terms)
            ELSE Raised("ValueError")

RemoveFirstMatch(tbl, product) ==
    LET hits == {i \in DOMAIN tbl : product.kind = "str" /\ StartsWith(tbl[i].col0, product.chars)}
    IN  IF hits = {} THEN tbl
        ELSE LET k == CHOOSE i \in hits : \A j \in hits : i <= j
             IN  [i \in 1..(Len(tbl) - 1) |-> IF i < k THEN tbl[i] ELSE tbl[i + 1]]

\* A faulty variant of CatalogueAfter: the matched row is consumed from the industry table.
CatalogueAfterDropMatch(base, inds, product, industry) ==
    [base |-> base,
     inds |-> [ind \in DOMAIN inds |->
                 IF industry.kind = "str" /\ industry.chars = ind
                 THEN RemoveFirstMatch(inds[ind], product) ELSE inds[ind]]]

\* The tables after a call of get_recommendation: the function only reads them (a
\* boolean-mask selection is a new frame, .values[0] a read).
CatalogueAfter(base, inds, product, industry) == [base |-> base, inds |-> inds]

(* -------------------------------------------------------- get_deal_insights *)
RECURSIVE DecimalText(_)
\* str(n) of a non-negative int, as the f-string formats it.
DecimalText(n) ==
    IF n < 10 THEN <<DigitChars[n + 1]>>
    ELSE DecimalText(n \div 10) \o <<DigitChars[(n % 10) + 1]>>

\* A faulty variant of Prompt: the quantity line is left out of the prompt.
PromptWithoutMOQ(product, industry, moq, payment_terms) ==
    CASE industry.kind = "str" /\ industry.chars # <<>> ->
            [ok |-> TRUE, exc |-> "",
             prompt |-> [product |-> product, industry |-> industry,
                         suffix |-> Upper(industry.chars[1]),
                         moq |-> <<>>, terms |-> payment_terms]]
      [] industry.kind = "str" /\ industry.chars = <<>> ->
            [ok |-> FALSE, exc |-> "IndexError", prompt |-> <<>>]
      [] OTHER -> [ok |-> FALSE, exc |-> "TypeError", prompt |-> <<>>]

\* The f-string of get_deal_insights. industry[0] raises IndexError on "" and
\* TypeError on a float (NaN); otherwise the prompt carries the product, the
\* industry, the suffix industry[0].upper(), the quantity and the terms.
Prompt(product, industry, moq, payment_terms) ==
    CASE industry.kind = "str" /\ industry.chars # <<>> ->
            [ok |-> TRUE, exc |-> "",
             prompt |-> [product |-> product, industry |-> industry,
                         suffix |-> Upper(industry.chars[1]),
                         moq |-> DecimalText(moq), terms |-> payment_terms]]
      [] industry.kind = "str" /\ industry.chars = <<>> ->
            [ok |-> FALSE, exc |-> "IndexError", prompt |-> <<>>]
      [] OTHER -> [ok |-> FALSE, exc |-> "TypeError", prompt |-> <<>>]

(* ------------------------------------------------------------ the script run *)
\* st.secrets[...] of lines 9-15.
RequiredSecrets == {"OPENAI_API_KEY", "AWS_ACCESS_KEY_ID", "AWS_SECRET_ACCESS_KEY",
                    "AWS_REGION", "AWS_S3_BUCKET_NAME"}

\* .streamlit/secrets.toml: complete, or with one entry missing.
SecretsFiles == {RequiredSecrets} \cup {RequiredSecrets \ {k} : k \in RequiredSecrets}

Buttons == {"none", "salesforce", "recommend"}

NoCall == [product |-> NoneVal, industry |-> NoneVal]
NoUpload == [loaded |-> FALSE, rows |-> <<>>]

\* The upload feed: any subset of the columns the script reads; a cell of a present
\* column is text or NaN (an empty cell), a cell of an absent column reads as None.
UploadColumns == {"Base Name", "Product", "Industry"}
UploadNameCells == {NaN, Str(<<"W">>), Str(<<"w">>)}
UploadIndustryCells == {NaN, Str(Apparel), Str(<<"n", "o", "n", "e">>)}
UploadRows(cols) ==
    [BaseName : IF "Base Name" \in cols THEN UploadNameCells ELSE {NoneVal},
     Product : IF "Product" \in cols THEN UploadNameCells ELSE {NoneVal},
     Industry : IF "Industry" \in cols THEN UploadIndustryCells ELSE {NoneVal}]
UploadTables ==
    UNION {[1..k -> UploadRows(cols)] : cols \in SUBSET UploadColumns, k \in 0..MaxUploadRows}

\* Arguments of a direct call of get_recommendation.
ProductArgs == {Str(n) : n \in Names} \cup {NaN}
IndustryArgs == {Str(Apparel), Str(Transportation), Str(<<"n", "o", "n", "e">>), Str(<<>>), NaN}

\* base_df["Base Name"].unique(), the options of the product selectbox.
BaseNames(base) == {base[i].BaseName : i \in DOMAIN base}

\* `rec = get_recommendation(..); if rec: ... else: st.error(..)` with the call of
\* get_deal_insights, shared by both buttons (lines 140-152 and 156-168). The
\* chat-completion call either answers or raises; nothing catches what it raises.
RunRecommendation(product, industry, notFoundMessage, next) ==
    LET r == get_recommendation(base_df, industry_dfs, product, industry)
        after == CatalogueAfter(base_df, industry_dfs, product, industry)
    IN  /\ call' = [product |-> product, industry |-> industry]
        /\ rec' = r
        /\ base_df' = after.base
        /\ industry_dfs' = after.inds
        /\ CASE r.outcome = "raise" ->
                  /\ pc' = "crashed"
                  /\ exception' = r.exc
                  /\ UNCHANGED <<requests, display>>
             [] r.outcome = "None" ->
                  /\ display' = Append(display, notFoundMessage)
                  /\ pc' = next
                  /\ UNCHANGED <<requests, exception>>
             [] OTHER ->
                  LET p == Prompt(r.Product, r.Industry, r.MOQ, r.PaymentTerms) IN
                  IF ~p.ok
                  THEN /\ display' = Append(display, "Recommended Product Details")
                       /\ pc' = "crashed"
                       /\ exception' = p.exc
                       /\ UNCHANGED requests
                  ELSE \E answered \in BOOLEAN :
                       /\ requests' = Append(requests, p.prompt)
                       /\ IF answered
                          THEN /\ display' = display \o <<"Recommended Product Details",
                                                          "Deal Insights">>
                               /\ pc' = next
                               /\ UNCHANGED exception
                          ELSE /\ display' = Append(display, "Recommended Product Details")
                               /\ pc' = "crashed"
                               /\ exception' = "OpenAIError"

\* Lines 9-15: a missing entry of st.secrets raises KeyError at module level.
LoadSecrets ==
    /\ pc = "secrets"
    /\ IF RequiredSecrets \subseteq secrets
       THEN pc' = "download" /\ UNCHANGED exception
       ELSE pc' = "crashed" /\ exception' = "KeyError"
    /\ UNCHANGED <<base_df, industry_dfs, secrets, uploaded_df, clicked, call, rec,
                   requests, display>>

\* Lines 42-53: the download and read of the upload feed, with both except clauses.
LoadUploaded ==
    /\ pc = "download"
    /\ \/ \E df \in UploadTables :
            /\ uploaded_df' = [loaded |-> TRUE, rows |-> df]
            /\ display' = Append(display, "Salesforce data loaded successfully from S3.")
       \/ /\ uploaded_df' = NoUpload
          /\ display' = Append(display, "AWS credentials not found.")
       \/ /\ uploaded_df' = NoUpload
          /\ display' = Append(display, "Error loading Salesforce data")
    /\ pc' = "salesforce"
    /\ UNCHANGED <<base_df, industry_dfs, secrets, clicked, call, rec, requests, exception>>

\* Lines 126-152. The row selectbox returns None when the feed has no rows, and
\* uploaded_df.iloc[None] raises TypeError.
SalesforceSection ==
    /\ pc = "salesforce"
    /\ UNCHANGED <<secrets, uploaded_df, clicked>>
    /\ IF ~uploaded_df.loaded
       THEN /\ pc' = "recommend"
            /\ UNCHANGED <<base_df, industry_dfs, call, rec, requests, display, exception>>
       ELSE IF uploaded_df.rows = <<>>
       THEN /\ pc' = "crashed"
            /\ exception' = "TypeError"
            /\ display' = Append(display, "Salesforce Product Data")
            /\ UNCHANGED <<base_df, industry_dfs, call, rec, requests>>
       ELSE \E selected_uploaded_row \in DOMAIN uploaded_df.rows :
            LET row == uploaded_df.rows[selected_uploaded_row]
                salesforce_product == Or(Or(row.BaseName, row.Product), Str(<<>>))
                salesforce_industry == Or(row.Industry, Str(<<>>))
            IN  IF clicked = "salesforce"
                THEN RunRecommendation(salesforce_product, salesforce_industry,
                                       "Salesforce product not matched in base data.",
                                       "recommend")
                ELSE /\ pc' = "recommend"
                     /\ display' = Append(display, "Salesforce Product Data")
                     /\ UNCHANGED <<base_df, industry_dfs, call, rec, requests, exception>>

\* Lines 122-123 and 155-168: the product is one of the base names, the industry
\* one of the keys of industry_dfs.
RecommendSection ==
    /\ pc = "recommend"
    /\ UNCHANGED <<secrets, uploaded_df, clicked>>
    /\ IF clicked = "recommend"
       THEN \E selected_product \in BaseNames(base_df), selected_industry \in Industries :
                RunRecommendation(Str(selected_product), Str(selected_industry),
                                  "Product not found in base data.", "done")
       ELSE /\ pc' = "done"
            /\ UNCHANGED <<base_df, industry_dfs, call, rec, requests, display, exception>>

\* A user interaction reruns the script from its first line; at most one button
\* reads True in a run.
Rerun ==
    /\ pc \in {"done", "crashed"}
    /\ \E b \in Buttons : clicked' = b
    /\ pc' = "secrets"
    /\ uploaded_df' = NoUpload
    /\ call' = NoCall
    /\ rec' = NoRec
    /\ requests' = <<>>
    /\ display' = <<>>
    /\ exception' = ""
    /\ UNCHANGED <<base_df, industry_dfs, secrets>>

\* The first run of the script, on catalogue files with one base product and at
\* most one row per industry sheet.
Init ==
    /\ \E b \in BaseShapes, s \in Shapes(MaxRows) :
          /\ Len(b) = 1
          /\ Len(s) <= 1
          /\ base_df = BaseTable(b)
          /\ industry_dfs = IndustryDfs(s)
    /\ secrets \in SecretsFiles
    /\ uploaded_df = NoUpload
    /\ clicked = "none"
    /\ pc = "secrets"
    /\ call = NoCall
    /\ rec = NoRec
    /\ requests = <<>>
    /\ display = <<>>
    /\ exception = ""

Next == LoadSecrets \/ LoadUploaded \/ SalesforceSection \/ RecommendSection \/ Rerun

Spec == Init /\ [][Next]_vars

(* ------------------------------------------------ the resolver called directly *)
\* One call of get_recommendation on the loaded tables.
Resolve ==
    /\ pc = "lookup"
    /\ \E product \in ProductArgs, industry \in IndustryArgs :
          LET after == CatalogueAfter(base_df, industry_dfs, product, industry) IN
          /\ call' = [product |-> product, industry |-> industry]
          /\ rec' = get_recommendation(base_df, industry_dfs, product, industry)
          /\ base_df' = after.base
          /\ industry_dfs' = after.inds
    /\ UNCHANGED <<secrets, uploaded_df, clicked, pc, requests, display, exception>>

\* Any base table and any industry sheets of 0..MaxRows rows.
InitResolver ==
    /\ \E b \in BaseShapes, s \in Shapes(MaxRows) :
          /\ base_df = BaseTable(b)
          /\ industry_dfs = IndustryDfs(s)
    /\ secrets = RequiredSecrets
    /\ uploaded_df = NoUpload
    /\ clicked = "none"
    /\ pc = "lookup"
    /\ call = NoCall
    /\ rec = NoRec
    /\ requests = <<>>
    /\ display = <<>>
    /\ exception = ""

NextResolver == Resolve

SpecResolver == InitResolver /\ [][NextResolver]_vars

(* ------------------------------------------------------------------ claims *)
\* What the claims say, stated on the tables and on the arguments of the last
\* call, without the operators of get_recommendation.
IsPrefixOf(p, s) == Len(p) <= Len(s) /\ \A k \in 1..Len(p) : s[k] = p[k]
IsNumber(cell) ==
    cell # <<>> /\ \A k \in 1..Len(cell) :
                      cell[k] \in {"0", "1", "2", "3", "4", "5", "6", "7", "8", "9"}

Called == call # NoCall
BaseRows == {i \in DOMAIN base_df : call.product = Str(base_df[i].BaseName)}
InBase == BaseRows # {}
BaseRow == base_df[CHOOSE i \in BaseRows : \A j \in BaseRows : i <= j]
KnownIndustry == call.industry.kind = "str" /\ call.industry.chars \in Industries
Sheet == industry_dfs[call.industry.chars]
MatchingRows ==
    IF KnownIndustry /\ call.product.kind = "str"
    THEN {i \in DOMAIN Sheet : IsPrefixOf(call.product.chars, Sheet[i].col0)}
    ELSE {}
FirstMatch == CHOOSE i \in MatchingRows : \A j \in MatchingRows : i <= j
\* The number written in a numeric MOQ cell of row i of a table.
NumberIn(tag, i) == TableNo(tag) * 10 + i
TakenFrom(i) ==
    /\ rec.RecommendedProduct = Str(Sheet[i].col0)
    /\ rec.RecommendedCode = Sheet[i].col1
    /\ rec.MOQ = NumberIn(call.industry.chars, i)
    /\ rec.PaymentTerms = Sheet[i].Terms

\* C1: a product of the base table with a row of the selected industry sheet that
\* starts with its name (and holds an integer MOQ) gets Recommended Product, Code,
\* MOQ and Payment Terms of a matching row of that sheet, not of the base row.
C1_IndustryOverride ==
    (Called /\ InBase /\ MatchingRows # {} /\ IsNumber(Sheet[FirstMatch].MOQ)) =>
        /\ rec.outcome = "ok"
        /\ \E i \in MatchingRows : TakenFrom(i)
        /\ rec.RecommendedCode # BaseRow.BaseCode
        /\ rec.PaymentTerms # BaseRow.Terms
        /\ rec.MOQ # NumberIn(BaseTag, CHOOSE i \in BaseRows : TRUE)

C1_Witness ==
    /\ Called /\ InBase /\ MatchingRows # {}
    /\ Sheet[FirstMatch].col0 # call.product.chars
    /\ rec.outcome = "ok"

\* C2: a product of the base table (with an integer MOQ) asked with an industry
\* that is no sheet, or a sheet without a row starting with the name, gets the base
\* row's code, MOQ and terms and its own name as Recommended Product; no error.
C2_BaseFallback ==
    (Called /\ InBase /\ MatchingRows = {} /\ IsNumber(BaseRow.MOQ)) =>
        /\ rec.outcome = "ok"
        /\ rec.Product = call.product
        /\ rec.Industry = call.industry
        /\ rec.RecommendedProduct = call.product
        /\ rec.RecommendedCode = BaseRow.BaseCode
        /\ rec.MOQ = NumberIn(BaseTag, CHOOSE i \in BaseRows : TRUE)
        /\ rec.PaymentTerms = BaseRow.Terms

C2_Witness ==
    /\ Called /\ InBase /\ KnownIndustry /\ Sheet # <<>> /\ MatchingRows = {}
    /\ rec.outcome = "ok"

\* C3: a product equal to no base name is NotFound (None) for every industry, also
\* when a row of the industry sheet or a base name starts with it; no error.
C3_NotFound == (Called /\ ~InBase) => rec = NotFound

C3_Witness ==
    /\ Called /\ ~InBase /\ MatchingRows # {}
    /\ \E i \in DOMAIN base_df : IsPrefixOf(call.product.chars, base_df[i].BaseName)
    /\ rec = NotFound

\* C4: with several rows of the sheet starting with the name, every overridden
\* field is the first such row's; no field is a later row's, and a first row whose
\* MOQ is no integer fails the call instead of passing to a later row.
C4_FirstRowWins ==
    (Called /\ InBase /\ Cardinality(MatchingRows) >= 2) =>
        IF IsNumber(Sheet[FirstMatch].MOQ)
        THEN /\ rec.outcome = "ok"
             /\ TakenFrom(FirstMatch)
             /\ \A j \in MatchingRows \ {FirstMatch} :
                   /\ rec.RecommendedCode # Sheet[j].col1
                   /\ rec.MOQ # NumberIn(call.industry.chars, j)
                   /\ rec.PaymentTerms # Sheet[j].Terms
        ELSE rec.outcome = "raise"

C4_Witness ==
    /\ Called /\ InBase /\ Cardinality(MatchingRows) >= 2
    /\ \E j \in MatchingRows : Sheet[j].col0 # Sheet[FirstMatch].col0
    /\ rec.outcome = "ok"

SelectedMOQ == IF MatchingRows # {} THEN Sheet[FirstMatch].MOQ ELSE BaseRow.MOQ

\* C5: the call fails with an error exactly when the MOQ cell it selected (the
\* first matching sheet row's, else the base row's) is no integer; it never
\* returns a substitute, and cells of rows it did not select do not matter.
C5_MOQCoercion ==
    (Called /\ InBase) =>
        IF IsNumber(SelectedMOQ)
        THEN /\ rec.outcome = "ok"
             /\ rec.MOQ = IF MatchingRows # {}
                          THEN NumberIn(call.industry.chars, FirstMatch)
                          ELSE NumberIn(BaseTag, CHOOSE i \in BaseRows : TRUE)
        ELSE rec.outcome = "raise" /\ rec.exc = "ValueError"

C5_Witness ==
    /\ Called /\ InBase /\ MatchingRows # {}
    /\ ~IsNumber(SelectedMOQ) /\ IsNumber(BaseRow.MOQ)
    /\ rec.outcome = "raise"

\* C6 as claimed: a failing text-generation call is caught, the run does not end
\* with that error uncaught.
C6_UpstreamErrorCaught == ~(pc = "crashed" /\ exception = "OpenAIError")

DownloadWarning ==
    \E i \in DOMAIN display :
        display[i] \in {"AWS credentials not found.", "Error loading Salesforce data"}

\* C7 as claimed: with a secret missing the run does not crash, and a failed
\* download leaves a warning and no upload table.
C7_MissingCredentialDegrades ==
    /\ secrets # RequiredSecrets => pc # "crashed"
    /\ DownloadWarning => ~uploaded_df.loaded /\ exception # "KeyError"

\* C8: no call of get_recommendation changes the base table or an industry sheet,
\* and a call repeated with the same arguments returns the same outcome.
C8_CatalogueReadOnly ==
    [][/\ base_df' = base_df
       /\ industry_dfs' = industry_dfs
       /\ (call' = call => rec' = rec)]_vars

C8_Witness == Called /\ InBase /\ MatchingRows # {} /\ rec.outcome = "ok"

\* C9 as claimed: a row of the upload feed without an industry, whose product is
\* in the base table, resolves and its insight request is built and sent.
C9_EmptyIndustryCompletes ==
    (/\ clicked = "salesforce"
     /\ rec.outcome = "ok"
     /\ call.industry \in {Str(<<>>), NaN}
     /\ pc # "salesforce") =>
        requests # <<>> /\ exception \notin {"IndexError", "TypeError"}

NotFoundShown ==
    \E i \in DOMAIN display :
        display[i] \in {"Salesforce product not matched in base data.",
                        "Product not found in base data."}

\* C10: a run issues at most one text-generation request, only after a resolution
\* that returned a result, carrying that result's MOQ and payment terms (the sheet
\* row's when one matched, else the base row's); NotFound gives no request and an
\* inline error.
C10_RequestFollowsResult ==
    /\ Len(requests) <= 1
    /\ requests # <<>> =>
          /\ rec.outcome = "ok"
          /\ requests[1].product = call.product
          /\ requests[1].industry = call.industry
          /\ requests[1].moq = SelectedMOQ
          /\ requests[1].terms = rec.PaymentTerms
          /\ requests[1].terms =
                IF MatchingRows # {} THEN Sheet[FirstMatch].Terms ELSE BaseRow.Terms
    /\ rec.outcome = "None" => requests = <<>> /\ NotFoundShown
    /\ rec.outcome \in {"none", "raise"} => requests = <<>>

C10_Witness ==
    /\ requests # <<>> /\ MatchingRows # {} /\ pc = "done"
    /\ \E i \in DOMAIN display : display[i] = "Deal Insights"

====
